---- MODULE Spec2Model ----
(***************************************************************************)
(* The study-buddy application: the App component's state (React state     *)
(* hooks), its event handlers, the completions of the Content Service      *)
(* calls it awaits, and the localStorage record of the history.            *)
(*                                                                         *)
(* A handler runs synchronously up to its first await with the values its  *)
(* closure captured at the last render; the code after the await runs as   *)
(* a separate step when the call settles, still with the captured values.  *)
(* Every call that has been issued and has not settled is an element of    *)
(* inflight, carrying the arguments and the captured values it needs.      *)
(***************************************************************************)
EXTENDS Integers, Sequences, FiniteSets, Bags, TLC

\* ------------------------------------------------------------------ bounds
\* Calls that may be unsettled at once (the environment stops clicking).
MaxInFlight == 2
\* Answers the service marks "Correct" before it stops doing so (the score
\* has no bound in the code: see handleAnswerSubmit).
MaxScore == 6

\* The longest list of grounding chunks of a guide response that is tried.
MaxChunks == 3

\* --------------------------------------------------------- program constants
quizLength == 5

\* ------------------------------------------------------------------ values
\* Text the user types is a sequence of characters, so that trim() and
\* toLowerCase() are computed; text the service returns is an opaque token,
\* "" being the empty string.
TopicInputs == { <<" ">>, <<"a">> }
AnswerInputs == { <<" ">>, <<"x">> }
GuideTexts == { "g1" }
QuestionTexts == { "q1" }
KeyPointTexts == { "kp" }
SummaryTexts == { "sm" }
Evaluations == { "Correct", "Partially Correct", "Incorrect", "Unsure" }
Explanation == "why"
NULL == "null"
UNDEFINED == "undefined"

\* The feedback state: null, or the object the evaluation parsed to.
NoFeedback == [evaluation |-> NULL, explanation |-> NULL]
Feedback(e) == [evaluation |-> e, explanation |-> Explanation]

AppStates ==
    { "Initial", "GeneratingGuide", "Studying", "GeneratingKeyPoints",
      "GeneratingSummary", "AskingQuestion", "EvaluatingAnswer",
      "ShowingFeedback", "QuizComplete", "ShowingHistory", "Error" }

\* The messages the service wrappers throw, and the TypeError of calling
\* .some on a history value that is not an array.
GuideError == "Failed to generate study guide. Please try again."
QuestionError == "Failed to generate a new question. Please try again."
EvaluateError == "Failed to evaluate the answer. Please try again."
KeyPointsError == "Failed to generate key points. Please try again."
SummaryError == "Failed to generate summary. Please try again."
NotAFunctionError == "history.some is not a function"

\* ------------------------------------------------------------ string helpers
IsSpace(c) == c = " "

RECURSIVE TrimStart(_)
TrimStart(s) ==
    IF s = <<>> THEN <<>>
    ELSE IF IsSpace(Head(s)) THEN TrimStart(Tail(s)) ELSE s

RECURSIVE TrimEnd(_)
TrimEnd(s) ==
    IF s = <<>> THEN <<>>
    ELSE IF IsSpace(s[Len(s)]) THEN TrimEnd(SubSeq(s, 1, Len(s) - 1)) ELSE s

\* String.prototype.trim
Trim(s) == TrimEnd(TrimStart(s))

LowerChar(c) == IF c = "A" THEN "a" ELSE IF c = "B" THEN "b" ELSE c

\* String.prototype.toLowerCase
ToLowerCase(s) == [i \in 1..Len(s) |-> LowerChar(s[i])]

\* ------------------------------------------------------------------ sources
\* The grounding chunks a guide response may carry: web.uri and web.title,
\* either of which may be absent.
Chunk(u, t) == [uri |-> u, title |-> t]

DuplicatedChunks ==
    << Chunk("u1", "t1"), Chunk(UNDEFINED, "t2"), Chunk("u1", "t2") >>

GroundingChunkLists == { DuplicatedChunks }

Truthy(v) == v # UNDEFINED /\ v # ""

\* .filter(source => source.uri && source.title)
RECURSIVE FilterSources(_)
FilterSources(cs) ==
    IF cs = <<>> THEN <<>>
    ELSE IF Truthy(Head(cs).uri) /\ Truthy(Head(cs).title)
         THEN <<Head(cs)>> \o FilterSources(Tail(cs))
         ELSE FilterSources(Tail(cs))

\* Map.prototype.set on the Map's entries in insertion order: a key already
\* present keeps its place and takes the new value.
MapSet(m, item) ==
    IF \E i \in 1..Len(m) : m[i].uri = item.uri
    THEN [i \in 1..Len(m) |-> IF m[i].uri = item.uri THEN item ELSE m[i]]
    ELSE Append(m, item)

RECURSIVE MapOf(_, _)
MapOf(m, items) ==
    IF items = <<>> THEN m ELSE MapOf(MapSet(m, Head(items)), Tail(items))

\* Array.from(new Map(sources.map(item => [item.uri, item])).values())
UniqueSources(cs) == MapOf(<<>>, FilterSources(cs))

\* ------------------------------------------------------------------ history
\* A JavaScript value held in the history state: an array of items, or an
\* object that is not an array.
JsList(items) == [isList |-> TRUE, items |-> items]
JsObject == [isList |-> FALSE, items |-> <<>>]

HistoryItem(t, g, s) == [topic |-> t, guide |-> g, sources |-> s]

\* A persisted history of six entries, as an earlier session of the
\* application wrote it: the newest is the guide for topic "a".
StoredItem(c) == HistoryItem(<<c>>, "g0", <<>>)

SixItems ==
    << HistoryItem(<<"a">>, "g1", UniqueSources(DuplicatedChunks)),
       StoredItem("c"), StoredItem("d"), StoredItem("e"), StoredItem("f"),
       StoredItem("h") >>

\* The localStorage record 'studyBuddyHistory' before the page loads:
\* absent, text that is not JSON, or JSON text (shown by the value it
\* parses to).
Missing == [kind |-> "missing", value |-> JsList(<<>>)]
Unparseable == [kind |-> "unparseable", value |-> JsList(<<>>)]
Json(v) == [kind |-> "json", value |-> v]

PersistedRecords ==
    { Missing, Unparseable, Json(JsObject), Json(JsList(<<>>)),
      Json(JsList(SixItems)) }

\* The history entries the user clicks.
HistoryPicks == { 2 }

\* history.length > n, where history.length is undefined for the object
LengthGreater(h, n) == h.isList /\ Len(h.items) > n

\* ------------------------------------------------------------------ calls
Call(op, t, h, prev, q, a) ==
    [op |-> op, topic |-> t, hist |-> h, prev |-> prev, question |-> q,
     answer |-> a]

GuideCall(t, h) == Call("generateStudyGuide", t, h, <<>>, "", <<>>)
QuestionCall(prev) ==
    Call("generateQuizQuestion", <<>>, JsList(<<>>), prev, "", <<>>)
EvaluateCall(q, a) ==
    Call("evaluateAnswer", <<>>, JsList(<<>>), <<>>, q, a)
KeyPointsCall == Call("generateKeyPoints", <<>>, JsList(<<>>), <<>>, "", <<>>)
SummaryCall == Call("generateSummary", <<>>, JsList(<<>>), <<>>, "", <<>>)

\* inflight is the bag of the unsettled calls: they settle in any order.
Issue(calls, c) == calls (+) SetToBag({c})
Settle(calls, c) == calls (-) SetToBag({c})
Pending(calls) == BagCardinality(calls)

\* ------------------------------------------------------------------ state
VARIABLES
    mounted,          \* the mount effects have run
    appState, error,
    topic, studyGuide, sources, keyPoints, summary,
    questionsAsked, currentQuestion, userAnswer, feedback, score,
    history,
    storage,          \* the localStorage record
    inflight          \* the bag of the unsettled Content Service calls

flowVars == <<appState, error>>
dataVars == <<topic, studyGuide, sources, keyPoints, summary>>
quizVars == <<questionsAsked, currentQuestion, userAnswer, feedback, score>>
vars ==
    <<mounted, appState, error, topic, studyGuide, sources, keyPoints,
      summary, questionsAsked, currentQuestion, userAnswer, feedback, score,
      history, storage, inflight>>

Init ==
    /\ mounted = FALSE
    /\ appState = "Initial"
    /\ error = NULL
    /\ topic = <<>>
    /\ studyGuide = ""
    /\ sources = <<>>
    /\ keyPoints = ""
    /\ summary = ""
    /\ questionsAsked = <<>>
    /\ currentQuestion = ""
    /\ userAnswer = <<>>
    /\ feedback = NoFeedback
    /\ score = 0
    /\ history = JsList(<<>>)
    /\ storage \in PersistedRecords
    /\ inflight = EmptyBag

\* ------------------------------------------------------------- persistence
\* The load effect: getItem, and JSON.parse of a non-empty record; a missing
\* record is skipped and a parse error is caught, both leaving history [].
LoadHistory(rec) == IF rec.kind = "json" THEN rec.value ELSE JsList(<<>>)

\* The save effect: setItem('studyBuddyHistory', JSON.stringify(history)).
SaveHistory(h) == Json(h)

\* A variant in which only the save effect of the first render runs.
MountSavingFirstRender ==
    /\ ~mounted
    /\ mounted' = TRUE
    /\ history' = LoadHistory(storage)
    /\ storage' = SaveHistory(history)
    /\ UNCHANGED <<flowVars, dataVars, quizVars, inflight>>

\* The effects of the first render: the load effect sets history, the save
\* effect writes the [] of the first render, and the render that follows
\* the load runs the save effect again with the loaded value.
Mount ==
    /\ ~mounted
    /\ mounted' = TRUE
    /\ history' = LoadHistory(storage)
    /\ storage' = SaveHistory(history')
    /\ UNCHANGED <<flowVars, dataVars, quizVars, inflight>>

\* ------------------------------------------------------------------ resets
\* A variant that keeps the score of the last quiz.
ResetQuizStateKeepingScore ==
    /\ questionsAsked' = <<>>
    /\ currentQuestion' = ""
    /\ userAnswer' = <<>>
    /\ feedback' = NoFeedback
    /\ score' = score

ResetQuizState ==
    /\ questionsAsked' = <<>>
    /\ currentQuestion' = ""
    /\ userAnswer' = <<>>
    /\ feedback' = NoFeedback
    /\ score' = 0

\* What resetAllState sets, apart from the topic, the guide, the sources
\* and the app state, which handleSelectHistoryItem sets again after
\* calling it.
ResetAllData ==
    /\ keyPoints' = ""
    /\ summary' = ""
    /\ error' = NULL
    /\ ResetQuizState

\* The screens whose buttons call resetAllState: 'Back to new topic',
\* 'Study a New Topic', 'Back to Home' of the error view.
OffersReset == appState \in { "Studying", "QuizComplete", "Error" }

resetAllState ==
    /\ mounted
    /\ OffersReset
    /\ topic' = <<>>
    /\ studyGuide' = ""
    /\ sources' = <<>>
    /\ ResetAllData
    /\ appState' = "Initial"
    /\ UNCHANGED <<mounted, history, storage, inflight>>

\* ------------------------------------------------------------ topic, guide
\* onChange of the topic input of the initial view
TypeTopic(t) ==
    /\ mounted
    /\ appState = "Initial"
    /\ topic' = t
    /\ UNCHANGED <<mounted, flowVars, studyGuide, sources, keyPoints, summary,
                   quizVars, history, storage, inflight>>

\* A variant that tests the topic as typed.
TopicAcceptedUntrimmed(t) == t # <<>>

TopicAccepted(t) == Trim(t) # <<>>

handleTopicSubmit ==
    /\ mounted
    /\ appState = "Initial"
    /\ IF ~TopicAccepted(topic)
       THEN UNCHANGED vars
       ELSE /\ Pending(inflight) < MaxInFlight
            /\ appState' = "GeneratingGuide"
            /\ error' = NULL
            /\ studyGuide' = ""
            /\ sources' = <<>>
            /\ keyPoints' = ""
            /\ summary' = ""
            /\ ResetQuizState
            /\ inflight' = Issue(inflight, GuideCall(topic, history))
            /\ UNCHANGED <<mounted, topic, history, storage>>

\* history.some(item => item.topic.toLowerCase() === topic.toLowerCase())
InHistory(items, t) ==
    \E i \in 1..Len(items) : ToLowerCase(items[i].topic) = ToLowerCase(t)

\* The history after a guide for topic t arrived, h being the history the
\* submitting handler captured.
AddToHistory(h, t, g, s) ==
    IF InHistory(h.items, t) THEN h
    ELSE JsList(<<HistoryItem(t, g, s)>> \o h.items)

\* generateStudyGuide resolved with guide g and grounding chunks cs.
GuideResolved(c, g, cs) ==
    /\ BagIn(c, inflight)
    /\ c.op = "generateStudyGuide"
    /\ inflight' = Settle(inflight, c)
    /\ studyGuide' = g
    /\ sources' = UniqueSources(cs)
    /\ IF c.hist.isList
       THEN /\ appState' = "Studying"
            /\ error' = error
            /\ IF InHistory(c.hist.items, c.topic)
               THEN UNCHANGED <<history, storage>>
               ELSE /\ history' = AddToHistory(c.hist,
                                      c.topic, g, UniqueSources(cs))
                    /\ storage' = SaveHistory(history')
       ELSE \* history.some throws inside the try block
            /\ error' = NotAFunctionError
            /\ appState' = "Error"
            /\ UNCHANGED <<history, storage>>
    /\ UNCHANGED <<mounted, topic, keyPoints, summary, quizVars>>

\* A variant of the catch block that drops the message.
CallRejectedSilently(c, op, msg) ==
    /\ BagIn(c, inflight)
    /\ c.op = op
    /\ inflight' = Settle(inflight, c)
    /\ error' = error
    /\ appState' = "Error"
    /\ UNCHANGED <<mounted, dataVars, quizVars, history, storage>>

\* A variant of the catch block that leaves the loading screen up.
CallRejectedKeepingState(c, op, msg) ==
    /\ BagIn(c, inflight)
    /\ c.op = op
    /\ inflight' = Settle(inflight, c)
    /\ error' = msg
    /\ appState' = appState
    /\ UNCHANGED <<mounted, dataVars, quizVars, history, storage>>

\* The catch block of a handler: call c rejected with message msg.
CallRejected(c, op, msg) ==
    /\ BagIn(c, inflight)
    /\ c.op = op
    /\ inflight' = Settle(inflight, c)
    /\ error' = msg
    /\ appState' = "Error"
    /\ UNCHANGED <<mounted, dataVars, quizVars, history, storage>>

GuideRejected(c) == CallRejected(c, "generateStudyGuide", GuideError)

\* -------------------------------------------------------------------- quiz
\* fetchNextQuestion up to its await, asked being the questionsAsked its
\* closure holds: the value of the render that drew the button, also when
\* handleStartQuiz has just called resetQuizState.
QuizIsOver(asked) == Len(asked) >= quizLength

\* The list of previous questions a request carries does not reach the
\* application again; the model keeps it in the unsettled call where a
\* property reads it (keep), and leaves it out otherwise.
Sent(keep, asked) == IF keep THEN asked ELSE <<>>

FetchNextQuestion(asked, keep) ==
    /\ userAnswer' = <<>>
    /\ feedback' = NoFeedback
    /\ IF QuizIsOver(asked)
       THEN /\ appState' = "QuizComplete"
            /\ inflight' = inflight
       ELSE /\ Pending(inflight) < MaxInFlight
            /\ appState' = "AskingQuestion"
            /\ inflight' = Issue(inflight, QuestionCall(Sent(keep, asked)))

\* The screens that draw a button calling handleStartQuiz: 'Start Quiz' of
\* the study guide view, 'Try Again' of the quiz complete view.
OffersStartQuiz == appState \in { "Studying", "QuizComplete" }

handleStartQuiz(keep) ==
    /\ mounted
    /\ OffersStartQuiz
    /\ questionsAsked' = <<>>
    /\ currentQuestion' = ""
    /\ score' = 0
    /\ FetchNextQuestion(questionsAsked, keep)
    /\ UNCHANGED <<mounted, error, dataVars, history, storage>>

\* renderFeedbackView returns null while feedback is null.
OffersNextQuestion == appState = "ShowingFeedback" /\ feedback # NoFeedback

\* 'Next Question' / 'Finish Quiz' of the feedback view
fetchNextQuestion(keep) ==
    /\ mounted
    /\ OffersNextQuestion
    /\ FetchNextQuestion(questionsAsked, keep)
    /\ UNCHANGED <<mounted, error, dataVars, questionsAsked, currentQuestion,
                   score, history, storage>>

\* generateQuizQuestion resolved with question q.
QuestionResolved(c, q) ==
    /\ BagIn(c, inflight)
    /\ c.op = "generateQuizQuestion"
    /\ inflight' = Settle(inflight, c)
    /\ currentQuestion' = q
    /\ questionsAsked' = Append(questionsAsked, q)
    /\ UNCHANGED <<mounted, flowVars, dataVars, userAnswer, feedback, score,
                   history, storage>>

QuestionRejected(c) == CallRejected(c, "generateQuizQuestion", QuestionError)

\* renderContent draws the question view in AskingQuestion once a question
\* has been asked, and the loading view before.
ShowsQuestionView == appState = "AskingQuestion" /\ Len(questionsAsked) > 0

\* onChange of the answer textarea
TypeAnswer(a) ==
    /\ mounted
    /\ ShowsQuestionView
    /\ userAnswer' = a
    /\ UNCHANGED <<mounted, flowVars, dataVars, questionsAsked,
                   currentQuestion, feedback, score, history, storage,
                   inflight>>

AnswerAccepted(a) == Trim(a) # <<>>

handleAnswerSubmit ==
    /\ mounted
    /\ ShowsQuestionView
    /\ IF ~AnswerAccepted(userAnswer)
       THEN UNCHANGED vars
       ELSE /\ Pending(inflight) < MaxInFlight
            /\ appState' = "EvaluatingAnswer"
            /\ error' = NULL
            /\ inflight' =
                   Issue(inflight, EvaluateCall(currentQuestion, userAnswer))
            /\ UNCHANGED <<mounted, dataVars, quizVars, history, storage>>

\* A variant that also scores a partially correct answer.
ScoreAfterPartial(s, e) ==
    IF e \in { "Correct", "Partially Correct" } THEN s + 1 ELSE s

\* if (evalFeedback.evaluation === 'Correct') setScore(prev => prev + 1)
ScoreAfter(s, e) == IF e = "Correct" THEN s + 1 ELSE s

\* evaluateAnswer resolved with the parsed object {evaluation: e, ...}.
AnswerEvaluated(c, e) ==
    /\ BagIn(c, inflight)
    /\ c.op = "evaluateAnswer"
    /\ ScoreAfter(score, e) <= MaxScore
    /\ inflight' = Settle(inflight, c)
    /\ feedback' = Feedback(e)
    /\ score' = ScoreAfter(score, e)
    /\ appState' = "ShowingFeedback"
    /\ UNCHANGED <<mounted, error, dataVars, questionsAsked, currentQuestion,
                   userAnswer, history, storage>>

\* The call failed or its text was not JSON: evaluateAnswer throws.
EvaluateRejected(c) == CallRejected(c, "evaluateAnswer", EvaluateError)

\* -------------------------------------------------- key points and summary
handleGetKeyPoints ==
    /\ mounted
    /\ appState = "Studying"
    /\ IF keyPoints # ""
       THEN /\ keyPoints' = ""
            /\ UNCHANGED <<mounted, flowVars, topic, studyGuide, sources,
                           summary, quizVars, history, storage, inflight>>
       ELSE /\ Pending(inflight) < MaxInFlight
            /\ summary' = ""
            /\ appState' = "GeneratingKeyPoints"
            /\ inflight' = Issue(inflight, KeyPointsCall)
            /\ UNCHANGED <<mounted, error, topic, studyGuide, sources,
                           keyPoints, quizVars, history, storage>>

KeyPointsResolved(c, text) ==
    /\ BagIn(c, inflight)
    /\ c.op = "generateKeyPoints"
    /\ inflight' = Settle(inflight, c)
    /\ keyPoints' = text
    /\ appState' = "Studying"
    /\ UNCHANGED <<mounted, error, topic, studyGuide, sources, summary,
                   quizVars, history, storage>>

KeyPointsRejected(c) == CallRejected(c, "generateKeyPoints", KeyPointsError)

handleGetSummary ==
    /\ mounted
    /\ appState = "Studying"
    /\ IF summary # ""
       THEN /\ summary' = ""
            /\ UNCHANGED <<mounted, flowVars, topic, studyGuide, sources,
                           keyPoints, quizVars, history, storage, inflight>>
       ELSE /\ Pending(inflight) < MaxInFlight
            /\ keyPoints' = ""
            /\ appState' = "GeneratingSummary"
            /\ inflight' = Issue(inflight, SummaryCall)
            /\ UNCHANGED <<mounted, error, topic, studyGuide, sources,
                           summary, quizVars, history, storage>>

SummaryResolved(c, text) ==
    /\ BagIn(c, inflight)
    /\ c.op = "generateSummary"
    /\ inflight' = Settle(inflight, c)
    /\ summary' = text
    /\ appState' = "Studying"
    /\ UNCHANGED <<mounted, error, topic, studyGuide, sources, keyPoints,
                   quizVars, history, storage>>

SummaryRejected(c) == CallRejected(c, "generateSummary", SummaryError)

\* ------------------------------------------------------------ history views
\* The entries that the active screen draws as buttons: the first five on
\* the initial view, all of them on the history view.
ShownHistory ==
    IF ~history.isList THEN {}
    ELSE IF appState = "Initial"
         THEN { i \in 1..Len(history.items) : i <= 5 }
         ELSE IF appState = "ShowingHistory" THEN 1..Len(history.items)
              ELSE {}

\* A variant that always loads the newest entry.
SelectNewestHistoryItem(i) ==
    /\ mounted
    /\ i \in ShownHistory
    /\ ResetAllData
    /\ topic' = history.items[1].topic
    /\ studyGuide' = history.items[1].guide
    /\ sources' = history.items[1].sources
    /\ appState' = "Studying"
    /\ UNCHANGED <<mounted, history, storage, inflight>>

handleSelectHistoryItem(i) ==
    /\ mounted
    /\ i \in ShownHistory
    /\ ResetAllData
    /\ topic' = history.items[i].topic
    /\ studyGuide' = history.items[i].guide
    /\ sources' = history.items[i].sources
    /\ appState' = "Studying"
    /\ UNCHANGED <<mounted, history, storage, inflight>>

\* A variant that draws 'View All History' for a history of any length.
ViewAllHistoryAnyLength ==
    /\ mounted
    /\ appState = "Initial"
    /\ history.isList
    /\ appState' = "ShowingHistory"
    /\ UNCHANGED <<mounted, error, dataVars, quizVars, history, storage,
                   inflight>>

\* 'View All History' of the initial view, drawn when history.length > 5
ViewAllHistory ==
    /\ mounted
    /\ appState = "Initial"
    /\ LengthGreater(history, 5)
    /\ appState' = "ShowingHistory"
    /\ UNCHANGED <<mounted, error, dataVars, quizVars, history, storage,
                   inflight>>

\* 'Back to Home' of the history view
BackFromHistory ==
    /\ mounted
    /\ appState = "ShowingHistory"
    /\ appState' = "Initial"
    /\ UNCHANGED <<mounted, error, dataVars, quizVars, history, storage,
                   inflight>>

\* --------------------------------------------------------------------- next
\* What the user does on the screen that renderContent draws.
UserAction(keep) ==
    \/ \E t \in TopicInputs : TypeTopic(t)
    \/ handleTopicSubmit
    \/ handleStartQuiz(keep)
    \/ fetchNextQuestion(keep)
    \/ \E a \in AnswerInputs : TypeAnswer(a)
    \/ handleAnswerSubmit
    \/ handleGetKeyPoints
    \/ handleGetSummary
    \/ \E i \in HistoryPicks : handleSelectHistoryItem(i)
    \/ ViewAllHistory
    \/ BackFromHistory
    \/ resetAllState

\* The completion of an unsettled call: it resolves with a value the
\* service may return, or rejects.
CallSettles ==
    \/ \E c \in BagToSet(inflight), g \in GuideTexts,
          cs \in GroundingChunkLists : GuideResolved(c, g, cs)
    \/ \E c \in BagToSet(inflight) : GuideRejected(c)
    \/ \E c \in BagToSet(inflight), q \in QuestionTexts :
           QuestionResolved(c, q)
    \/ \E c \in BagToSet(inflight) : QuestionRejected(c)
    \/ \E c \in BagToSet(inflight), e \in Evaluations : AnswerEvaluated(c, e)
    \/ \E c \in BagToSet(inflight) : EvaluateRejected(c)
    \/ \E c \in BagToSet(inflight), text \in KeyPointTexts :
           KeyPointsResolved(c, text)
    \/ \E c \in BagToSet(inflight) : KeyPointsRejected(c)
    \/ \E c \in BagToSet(inflight), text \in SummaryTexts :
           SummaryResolved(c, text)
    \/ \E c \in BagToSet(inflight) : SummaryRejected(c)

Next(keep) == Mount \/ UserAction(keep) \/ CallSettles

Spec == Init /\ [][Next(FALSE)]_vars

\* The same application with a service that answers: a call that is
\* unsettled does not stay so forever.
SpecFair == Spec /\ WF_vars(CallSettles)

\* The same application, with the previous questions of every question
\* request kept in the model.
SpecRequests == Init /\ [][Next(TRUE)]_vars

\* The same application, where the user may also type a second topic, in
\* lower or in upper case.
OtherTopics == { <<"b">>, <<"B">> }

NextHistory ==
    \/ Next(FALSE)
    \/ \E t \in OtherTopics : TypeTopic(t)

SpecHistory == Init /\ [][NextHistory]_vars

\* The source list of a guide, for every list of grounding chunks up to
\* MaxChunks: the application waiting for the guide of its first topic, and
\* the guide arriving with any of these lists.
ChunkUris == { "u1", "u2", "u3", UNDEFINED }

ChunkTitles == { "t1", "t2", "t3", UNDEFINED }

ChunkLists ==
    UNION { [1..n -> { Chunk(u, t) : u \in ChunkUris, t \in ChunkTitles }] :
            n \in 0..MaxChunks }

InitSources ==
    /\ mounted = TRUE
    /\ appState = "GeneratingGuide"
    /\ error = NULL
    /\ topic = <<"a">>
    /\ studyGuide = ""
    /\ sources = <<>>
    /\ keyPoints = ""
    /\ summary = ""
    /\ questionsAsked = <<>>
    /\ currentQuestion = ""
    /\ userAnswer = <<>>
    /\ feedback = NoFeedback
    /\ score = 0
    /\ history = JsList(<<>>)
    /\ storage = SaveHistory(history)
    /\ inflight = Issue(EmptyBag, GuideCall(topic, history))

NextSources ==
    \E c \in BagToSet(inflight), g \in GuideTexts, cs \in ChunkLists :
        GuideResolved(c, g, cs)

SpecSources == InitSources /\ [][NextSources]_vars

\* ================================================================== claims
AnyRejected(c) ==
    \/ GuideRejected(c)
    \/ QuestionRejected(c)
    \/ EvaluateRejected(c)
    \/ KeyPointsRejected(c)
    \/ SummaryRejected(c)

QuizIsReset ==
    \/ handleTopicSubmit
    \/ handleStartQuiz(FALSE)
    \/ resetAllState
    \/ \E i \in HistoryPicks : handleSelectHistoryItem(i)

\* C1: in every reachable state at most one Content Service call is
\* unsettled.
C1_AtMostOneCallInFlight == Pending(inflight) <= 1

\* C2: in every reachable state the asked-question list has at most 5
\* questions.
C2_AskedAtMostQuizLength == Len(questionsAsked) <= quizLength

\* C3: whenever the state is QuizComplete, exactly 5 questions have been
\* asked in the quiz session.
C3_QuizCompleteAfterFive ==
    appState = "QuizComplete" => Len(questionsAsked) = quizLength

\* C4: start quiz, from Studying or from QuizComplete ('Try Again'), clears
\* the asked-question list, current question, pending answer, feedback and
\* score, moves the state to AskingQuestion and issues a question request
\* (whose list of previous questions is not kept under Spec).
C4_StartQuizRequestsQuestion ==
    [][handleStartQuiz(FALSE) =>
          /\ questionsAsked' = <<>>
          /\ currentQuestion' = ""
          /\ userAnswer' = <<>>
          /\ feedback' = NoFeedback
          /\ score' = 0
          /\ appState' = "AskingQuestion"
          /\ inflight' = Issue(inflight, QuestionCall(<<>>))]_vars

\* C5: an evaluation that resolves adds exactly 1 to the score if its
\* evaluation string is "Correct" and leaves the score unchanged for every
\* other string; any other step that changes the score is a quiz reset,
\* which sets it to 0.
C5_ScoreCountsCorrectOnly ==
    [][/\ \A c \in BagToSet(inflight), e \in Evaluations :
              AnswerEvaluated(c, e) =>
                  score' = IF e = "Correct" THEN score + 1 ELSE score
       /\ score' # score =>
              \/ \E c \in BagToSet(inflight), e \in Evaluations :
                     AnswerEvaluated(c, e)
              \/ QuizIsReset /\ score' = 0]_vars

\* C5 witness: a partially correct answer was evaluated after a correct
\* one, and the score is still 1.
C5_Witness ==
    /\ appState = "ShowingFeedback"
    /\ feedback = Feedback("Partially Correct")
    /\ Len(questionsAsked) = 2
    /\ score = 1

\* C6: in every reachable state 0 <= score <= len(questionsAsked), and the
\* score shown at QuizComplete is at most 5.
C6_ScoreWithinAsked ==
    /\ 0 <= score
    /\ score <= Len(questionsAsked)
    /\ appState = "QuizComplete" => score <= quizLength

\* C7: a call that fails moves the state to Error with a non-empty message
\* and issues no call; whenever the state is Error a message is present.
C7_FailureShowsError ==
    [][/\ \A c \in BagToSet(inflight) :
              AnyRejected(c) =>
                  /\ appState' = "Error"
                  /\ error' \notin { NULL, "" }
                  /\ inflight' = Settle(inflight, c)
       /\ appState' = "Error" => error' \notin { NULL, "" }]_vars

\* C7 witness: an evaluation failed while another call was unsettled.
C7_Witness ==
    /\ appState = "Error"
    /\ error = EvaluateError
    /\ Pending(inflight) = 1

\* C8: the state leaves Error only by the user's return to Initial.
C8_ErrorLeftOnlyByReset ==
    [][appState = "Error" /\ appState' # "Error" =>
          resetAllState /\ appState' = "Initial"]_vars

\* C9: submitting a non-empty topic from Initial moves the state to
\* GeneratingGuide with guide, sources, key points, summary and quiz data
\* cleared; the guide call that resolves moves it to Studying with the
\* returned guide and sources stored, and the one that fails to Error.
C9_TopicSubmitFlow ==
    [][/\ handleTopicSubmit /\ TopicAccepted(topic) =>
              /\ appState' = "GeneratingGuide"
              /\ studyGuide' = "" /\ sources' = <<>>
              /\ keyPoints' = "" /\ summary' = ""
              /\ questionsAsked' = <<>> /\ currentQuestion' = ""
              /\ userAnswer' = <<>> /\ feedback' = NoFeedback /\ score' = 0
       /\ \A c \in BagToSet(inflight), g \in GuideTexts,
             cs \in GroundingChunkLists :
              GuideResolved(c, g, cs) =>
                  /\ appState' = "Studying"
                  /\ studyGuide' = g
                  /\ sources' = UniqueSources(cs)
       /\ \A c \in BagToSet(inflight) :
              GuideRejected(c) => appState' = "Error"]_vars

\* C10: the return to Initial sets the state to Initial, leaves topic,
\* guide, sources, key points, summary, quiz data and error empty, and
\* leaves the history unchanged.
C10_ResetClearsAllButHistory ==
    [][resetAllState =>
          /\ appState' = "Initial"
          /\ topic' = <<>> /\ studyGuide' = "" /\ sources' = <<>>
          /\ keyPoints' = "" /\ summary' = ""
          /\ questionsAsked' = <<>> /\ currentQuestion' = ""
          /\ userAnswer' = <<>> /\ feedback' = NoFeedback /\ score' = 0
          /\ error' = NULL
          /\ history' = history /\ storage' = storage]_vars

\* C10 witness: back on the initial screen after a guide was generated and
\* added to the history, with nothing of it left but the history entry.
C10_Witness ==
    /\ appState = "Initial"
    /\ mounted
    /\ topic = <<>>
    /\ studyGuide = ""
    /\ history.isList
    /\ Len(history.items) = 1

\* C11: adding to the history is idempotent per topic, letter case ignored:
\* no two entries of the history have topics that are equal ignoring case,
\* and a guide that arrives for a topic already in the history leaves the
\* history as it is, with the guide and sources of the first submission.
NoTwoEntriesOfOneTopic(h) ==
    h.isList =>
        \A i, j \in 1..Len(h.items) :
            ToLowerCase(h.items[i].topic) = ToLowerCase(h.items[j].topic)
                => i = j

C11_HistoryAddIdempotent ==
    [][/\ NoTwoEntriesOfOneTopic(history')
       /\ \A c \in BagToSet(inflight), g \in GuideTexts,
             cs \in GroundingChunkLists :
              (/\ GuideResolved(c, g, cs)
               /\ history.isList
               /\ InHistory(history.items, c.topic)) => history' = history
      ]_vars

\* C12: once loaded, the history only grows at its front: a step leaves it
\* unchanged or puts exactly one new entry in front of the entries it had,
\* and a failed guide generation leaves it unchanged.
PrependsOne(h, g) ==
    /\ h.isList
    /\ g.isList
    /\ Len(g.items) = Len(h.items) + 1
    /\ Tail(g.items) = h.items

C12_HistoryAppendOnly ==
    [][mounted =>
          /\ history' = history \/ PrependsOne(history, history')
          /\ \A c \in BagToSet(inflight) :
                 GuideRejected(c) => history' = history
      ]_vars

NoUsableRecord ==
    storage \in { Missing, Unparseable } \/ ~storage.value.isList

C14_CorruptRecordIsEmptyHistory ==
    [][/\ (Mount /\ NoUsableRecord) =>
              appState' = "Initial" /\ ShownHistory' = {}
       /\ \A c \in BagToSet(inflight), g \in GuideTexts,
             cs \in GroundingChunkLists :
              GuideResolved(c, g, cs) => appState' # "Error"
      ]_vars

\* C15: the sources returned with a guide are the candidates that have
\* both a uri and a title, one per uri, in the order of first occurrence,
\* each being the first candidate met with its uri (uri and title).
RECURSIVE FirstPerUri(_, _)
FirstPerUri(seen, s) ==
    IF s = <<>> THEN <<>>
    ELSE IF Head(s).uri \in seen THEN FirstPerUri(seen, Tail(s))
         ELSE <<Head(s)>> \o FirstPerUri(seen \cup {Head(s).uri}, Tail(s))

C15_SourcesFirstPerUri ==
    [][\A c \in BagToSet(inflight), g \in GuideTexts, cs \in ChunkLists :
          GuideResolved(c, g, cs) =>
              sources' = FirstPerUri({}, FilterSources(cs))
      ]_vars

\* C16: the key points and the summary are never populated together.
C16_PanelsExclusive == keyPoints = "" \/ summary = ""

\* C17: the second of two toggles of a panel, the call of the first having
\* succeeded, gives back the display it started from: state Studying with
\* key points and summary both empty, and no call issued by that toggle.
C17_ToggleTwiceRestores ==
    [][/\ (handleGetKeyPoints /\ keyPoints # "") =>
              /\ appState' = "Studying"
              /\ keyPoints' = "" /\ summary' = ""
              /\ inflight' = inflight
       /\ (handleGetSummary /\ summary # "") =>
              /\ appState' = "Studying"
              /\ keyPoints' = "" /\ summary' = ""
              /\ inflight' = inflight
      ]_vars

\* C18: selecting a history entry, from Initial or ShowingHistory, issues
\* no call and leads to Studying with the topic, guide and sources of the
\* stored entry, with key points, summary, quiz data and error cleared and
\* the history as it was.
C18_SelectHistoryEntry ==
    [][\A i \in HistoryPicks :
          handleSelectHistoryItem(i) =>
              /\ appState \in { "Initial", "ShowingHistory" }
              /\ inflight' = inflight
              /\ appState' = "Studying"
              /\ topic' = history.items[i].topic
              /\ studyGuide' = history.items[i].guide
              /\ sources' = history.items[i].sources
              /\ keyPoints' = "" /\ summary' = "" /\ error' = NULL
              /\ questionsAsked' = <<>> /\ currentQuestion' = ""
              /\ userAnswer' = <<>> /\ feedback' = NoFeedback /\ score' = 0
              /\ history' = history /\ storage' = storage
      ]_vars

C18_Witness ==
    /\ appState = "Studying"
    /\ topic = <<"c">>
    /\ studyGuide = "g0"
    /\ sources = <<>>
    /\ history = JsList(SixItems)
    /\ Pending(inflight) > 0

\* C19: 'view all history' is an enabled transition to ShowingHistory
\* from Studying and from Initial, and 'back' leads from ShowingHistory to
\* Initial.
C19_ViewAllHistoryOffered ==
    /\ [](mounted /\ appState \in { "Studying", "Initial" }
             => ENABLED ViewAllHistory)
    /\ [][BackFromHistory => appState' = "Initial"]_vars

\* C19, amended: 'view all history' is offered on the initial view when
\* the history has more than five entries, and the state becomes
\* ShowingHistory by that action only, so never from Studying; 'back'
\* leads from ShowingHistory to Initial.
C19_ViewAllHistoryFromInitial ==
    /\ [](mounted /\ appState = "Initial" /\ LengthGreater(history, 5)
             => ENABLED ViewAllHistory)
    /\ [][(appState' = "ShowingHistory" /\ appState # "ShowingHistory") =>
              /\ ViewAllHistory
              /\ appState = "Initial"
              /\ LengthGreater(history, 5)
         ]_vars
    /\ [][BackFromHistory => appState' = "Initial"]_vars

C19_Witness ==
    /\ appState = "ShowingHistory"
    /\ history = JsList(SixItems)

\* C20: no reachable state is terminal, some user action or the completion
\* of a call being possible in each, and with a service that answers every
\* working state (a Generating state, EvaluatingAnswer, AskingQuestion with
\* no question yet) is eventually left or made answerable.
Working ==
    \/ appState \in { "GeneratingGuide", "GeneratingKeyPoints",
                      "GeneratingSummary", "EvaluatingAnswer" }
    \/ appState = "AskingQuestion" /\ ~ShowsQuestionView

C20_NoTerminalState ==
    /\ [](ENABLED <<Next(FALSE)>>_vars)
    /\ Working ~> ~Working

C20_Witness ==
    /\ appState = "AskingQuestion"
    /\ questionsAsked = <<>>
    /\ Pending(inflight) = MaxInFlight

\* C21: submitting a topic, or an answer, that is empty or all white space
\* is rejected: no variable changes and no call is issued.
C21_BlankSubmitRejected ==
    [][/\ (handleTopicSubmit /\ Trim(topic) = <<>>) => UNCHANGED vars
       /\ (handleAnswerSubmit /\ Trim(userAnswer) = <<>>) => UNCHANGED vars
      ]_vars

C21_Witness ==
    /\ ShowsQuestionView
    /\ userAnswer = <<" ">>
    /\ topic = <<"a">>
    /\ ENABLED handleAnswerSubmit
    /\ inflight = EmptyBag

\* C22: a question request carries, as previous questions, the questions
\* asked so far in the current quiz: none for the first question of a new
\* quiz, all the delivered ones afterwards; a delivered question is
\* appended once at the end of the asked list.
C22_RequestCarriesAskedQuestions ==
    [][/\ (handleStartQuiz(TRUE) /\ inflight' # inflight) =>
              inflight' = Issue(inflight, QuestionCall(<<>>))
       /\ (fetchNextQuestion(TRUE) /\ inflight' # inflight) =>
              inflight' = Issue(inflight, QuestionCall(questionsAsked))
       /\ \A c \in BagToSet(inflight), q \in QuestionTexts :
              QuestionResolved(c, q) =>
                  questionsAsked' = Append(questionsAsked, q)
      ]_vars

\* C23: in ShowingFeedback a feedback is present, it evaluates the answer
\* and the current question that are shown with it, and the current
\* question is the last of the asked list.
C23_FeedbackIsOfShownQuestion ==
    [][/\ appState' = "ShowingFeedback" =>
              /\ feedback' # NoFeedback
              /\ questionsAsked' # <<>>
              /\ currentQuestion' = questionsAsked'[Len(questionsAsked')]
       /\ \A c \in BagToSet(inflight), e \in Evaluations :
              AnswerEvaluated(c, e) =>
                  /\ c.question = currentQuestion'
                  /\ c.answer = userAnswer'
      ]_vars

\* C24: in Initial nothing of an earlier topic or quiz is left (guide,
\* sources, key points, summary, asked questions, current question and
\* feedback empty, score 0, error null), and the completion of a call
\* issued earlier changes neither the state nor these values.
NothingLeft ==
    /\ studyGuide = "" /\ sources = <<>>
    /\ keyPoints = "" /\ summary = ""
    /\ questionsAsked = <<>> /\ currentQuestion = ""
    /\ feedback = NoFeedback /\ score = 0
    /\ error = NULL

C24_InitialIsClean ==
    [][/\ appState' = "Initial" => NothingLeft'
       /\ (appState = "Initial" /\ CallSettles) =>
              UNCHANGED <<appState, error, studyGuide, sources, keyPoints,
                          summary, questionsAsked, currentQuestion, feedback,
                          score>>
      ]_vars

====
